---------------------------- MODULE Spec2Model ----------------------------
(***************************************************************************)
(* Model of the self-modification subsystem of CHERRY v11: the intent      *)
(* derivation helpers (ModificationDetector.js), the schema migration      *)
(* engine (SchemaMigration), the component registry (ComponentManager) and *)
(* the orchestration functions of the server (processModification,         *)
(* addMetricTracker, removeMetricTracker, addChart, undoLastModification). *)
(*                                                                         *)
(* Text is modelled as a sequence of one-character strings, so that the    *)
(* identifier derivations are computed character by character as the code  *)
(* computes them.  Every async function is cut at its awaits: one action   *)
(* per continuation, since other requests run between two awaits.          *)
(***************************************************************************)
EXTENDS Integers, Sequences, FiniteSets, TLC

(***************************************************************************)
(* Bounds of the model.                                                    *)
(***************************************************************************)
\* transactions started in one run of the sequential specification
MaxTxns == 4
\* transactions started in one run of the concurrent specification
MaxConcTxns == 2
\* I/O failures (store, file system) injected in one run
MaxFaults == 1
\* messages of the conversation processed in one run
MaxChats == 3

(***************************************************************************)
(* Text helpers.                                                           *)
(***************************************************************************)
LowerAlpha ==
    <<"a","b","c","d","e","f","g","h","i","j","k","l","m",
      "n","o","p","q","r","s","t","u","v","w","x","y","z">>

UpperAlpha ==
    <<"A","B","C","D","E","F","G","H","I","J","K","L","M",
      "N","O","P","Q","R","S","T","U","V","W","X","Y","Z">>

Digits == {"0","1","2","3","4","5","6","7","8","9"}

IsLower(c) == \E i \in 1..26 : LowerAlpha[i] = c

IsUpper(c) == \E i \in 1..26 : UpperAlpha[i] = c

\* String.prototype.toLowerCase, one character
LowerChar(c) ==
    IF IsUpper(c) THEN LowerAlpha[CHOOSE i \in 1..26 : UpperAlpha[i] = c] ELSE c

\* String.prototype.toUpperCase, one character
UpperChar(c) ==
    IF IsLower(c) THEN UpperAlpha[CHOOSE i \in 1..26 : LowerAlpha[i] = c] ELSE c

ToLower(s) == [i \in 1..Len(s) |-> LowerChar(s[i])]

\* the character class [a-z0-9]
IsAlnum(c) == IsLower(c) \/ c \in Digits

\* String.prototype.includes
Includes(s, sub) ==
    \E i \in 0..(Len(s) - Len(sub)) : SubSeq(s, i + 1, i + Len(sub)) = sub

\* .replace(/[^a-z0-9]+/g, '_'): every run of other characters becomes one "_"
RECURSIVE ReplaceRuns(_, _)
ReplaceRuns(s, inRun) ==
    IF s = <<>> THEN <<>>
    ELSE IF IsAlnum(Head(s)) THEN <<Head(s)>> \o ReplaceRuns(Tail(s), FALSE)
    ELSE IF inRun THEN ReplaceRuns(Tail(s), TRUE)
    ELSE <<"_">> \o ReplaceRuns(Tail(s), TRUE)

RECURSIVE StripLeading(_)
StripLeading(s) ==
    IF s # <<>> /\ Head(s) = "_" THEN StripLeading(Tail(s)) ELSE s

RECURSIVE StripTrailing(_)
StripTrailing(s) ==
    IF s # <<>> /\ s[Len(s)] = "_"
    THEN StripTrailing(SubSeq(s, 1, Len(s) - 1))
    ELSE s

\* the length limit of a field name
FieldNameLimit == 50

\* metricToFieldName
metricToFieldName(metricName) ==
    LET replaced == ReplaceRuns(ToLower(metricName), FALSE)
        stripped == StripTrailing(StripLeading(replaced))
    IN  SubSeq(stripped, 1, IF Len(stripped) < FieldNameLimit
                            THEN Len(stripped) ELSE FieldNameLimit)

\* .split(/[^a-z0-9]+/).map(capitalise).join(''): each run of [a-z0-9] is a
\* word, its first character upper-cased
RECURSIVE CapitaliseWords(_, _)
CapitaliseWords(s, atStart) ==
    IF s = <<>> THEN <<>>
    ELSE IF ~IsAlnum(Head(s)) THEN CapitaliseWords(Tail(s), TRUE)
    ELSE <<IF atStart THEN UpperChar(Head(s)) ELSE Head(s)>>
         \o CapitaliseWords(Tail(s), FALSE)

\* metricToComponentName
metricToComponentName(metricName) ==
    LET joined == CapitaliseWords(ToLower(metricName), TRUE)
    IN  IF joined # <<>> /\ ~IsUpper(Head(joined))
        THEN <<UpperChar(Head(joined))>> \o Tail(joined)
        ELSE joined

\* mutant of inferDataType: every metric is text
inferDataTypeText(metricName) == "TEXT"

\* inferDataType
inferDataType(metricName) ==
    LET lower == ToLower(metricName)
    IN  IF \/ Includes(lower, <<"m","o","o","d">>)
           \/ Includes(lower, <<"s","t","r","e","s","s">>)
           \/ Includes(lower, <<"l","e","v","e","l">>)
        THEN "INTEGER"
        ELSE IF \/ Includes(lower, <<"n","o","t","e">>)
                \/ Includes(lower, <<"c","o","m","m","e","n","t">>)
                \/ Includes(lower, <<"d","e","s","c","r","i","p","t","i","o","n">>)
        THEN "TEXT"
        ELSE IF \/ Includes(lower, <<"w","e","i","g","h","t">>)
                \/ Includes(lower, <<"t","e","m","p">>)
                \/ Includes(lower, <<"r","a","t","e">>)
        THEN "REAL"
        ELSE IF \/ Includes(lower, <<"d","o","n","e">>)
                \/ Includes(lower, <<"c","o","m","p","l","e","t","e","d">>)
                \/ Includes(lower, <<"c","h","e","c","k">>)
        THEN "BOOLEAN"
        ELSE "INTEGER"


(***************************************************************************)
(* The component generator: what generateComponent does with the text the  *)
(* oracle returns.                                                         *)
(***************************************************************************)
Whitespace == {" ", "\n", "\t"}

\* s.startsWith(prefix) at position i (1-based)
startsWithAt(s, i, prefix) ==
    /\ i + Len(prefix) - 1 <= Len(s)
    /\ \A k \in 1..Len(prefix) : s[i + k - 1] = prefix[k]

\* mutant of startsWith: every text passes
startsWithAnything(s, prefix) == TRUE

\* String.prototype.startsWith
startsWith(s, prefix) == startsWithAt(s, 1, prefix)

RECURSIVE trimStart(_)
trimStart(s) ==
    IF s # <<>> /\ s[1] \in Whitespace THEN trimStart(Tail(s)) ELSE s

RECURSIVE trimEnd(_)
trimEnd(s) ==
    IF s # <<>> /\ s[Len(s)] \in Whitespace
    THEN trimEnd(SubSeq(s, 1, Len(s) - 1)) ELSE s

\* String.prototype.trim
trim(s) == trimEnd(trimStart(s))

\* the grave accent U+0060, which a string of this language cannot hold
Backtick == "backtick"

Fence == <<Backtick, Backtick, Backtick>>

\* what (?:jsx?|javascript)? consumes at position j: the first alternative
\* that matches
fenceLanguage(s, j) ==
    IF startsWithAt(s, j, <<"j","s">>)
    THEN IF startsWithAt(s, j + 2, <<"x">>) THEN 3 ELSE 2
    ELSE IF startsWithAt(s, j, <<"j","a","v","a","s","c","r","i","p","t">>)
         THEN 10
         ELSE 0

\* the first replace of generatedCode: at every line start, a fence, its
\* optional language tag and one optional newline are removed (from position i)
RECURSIVE stripOpeningFences(_, _)
stripOpeningFences(s, i) ==
    IF i > Len(s) THEN <<>>
    ELSE IF (i = 1 \/ s[i - 1] = "\n") /\ startsWithAt(s, i, Fence)
         THEN LET k == i + 3 + fenceLanguage(s, i + 3)
                  m == IF startsWithAt(s, k, <<"\n">>) THEN k + 1 ELSE k
              IN  stripOpeningFences(s, m)
         ELSE <<s[i]>> \o stripOpeningFences(s, i + 1)

\* the second replace of generatedCode: a fence at the end of a line is
\* removed (from position i)
RECURSIVE stripClosingFences(_, _)
stripClosingFences(s, i) ==
    IF i > Len(s) THEN <<>>
    ELSE IF /\ startsWithAt(s, i, Fence)
            /\ (i + 3 > Len(s) \/ s[i + 3] = "\n")
         THEN stripClosingFences(s, i + 3)
         ELSE <<s[i]>> \o stripClosingFences(s, i + 1)

\* generateComponent: generatedCode, from response.content[0].text
generatedCode(text) ==
    stripClosingFences(stripOpeningFences(trim(text), 1), 1)

ExportShape ==
    <<"e","x","p","o","r","t"," ","d","e","f","a","u","l","t"," ","f","u",
      "n","c","t","i","o","n">>

\* texts the oracle may answer with
Body_plain == ExportShape \o
    <<" ","W","(",")","{","}">>

Body_eval == ExportShape \o
    <<" ","W","(",")","{","e","v","a","l","(","x",")","}">>

Text_fenced ==
    <<" ",Backtick,Backtick,Backtick,"j","s","x","\n">> \o Body_plain \o
    <<Backtick,Backtick,Backtick,"\n">>

Text_javascript ==
    <<Backtick,Backtick,Backtick,"j","a","v","a","s","c","r","i","p","t","\n">> \o Body_plain

Text_prose ==
    <<"S","o","r","r","y">>

OracleTexts == {Body_plain, Body_eval, Text_fenced, Text_javascript, Text_prose}

(***************************************************************************)
(* The intent detector: the patterns of detectModificationRequest and      *)
(* String.prototype.match on them.  A pattern is a sequence of tokens; the *)
(* matcher backtracks in the order the regular expression engine does, so  *)
(* the groups are those of the first match the engine finds.               *)
(***************************************************************************)
Lit(v) == [t |-> "lit", v |-> v]

Alt(vs) == [t |-> "alt", v |-> vs]

\* \s+
Ws == [t |-> "ws", v |-> <<>>]

\* (?: ... )?
Opt(toks) == [t |-> "opt", v |-> toks]

\* (.+?)
Lazy == [t |-> "lazy", v |-> <<>>]

\* (.+)
Greedy == [t |-> "greedy", v |-> <<>>]

NoMatch == [matched |-> FALSE, groups |-> <<>>]

MinOf(S) == CHOOSE n \in S : \A m \in S : n <= m

MaxOf(S) == CHOOSE n \in S : \A m \in S : n >= m

\* a literal at position i, letter case ignored (flag i)
litAt(s, i, lit) ==
    /\ i + Len(lit) - 1 <= Len(s)
    /\ \A k \in 1..Len(lit) : LowerChar(s[i + k - 1]) = LowerChar(lit[k])

\* the length of the run of white space that starts at position i
RECURSIVE wsRun(_, _)
wsRun(s, i) ==
    IF i <= Len(s) /\ s[i] \in Whitespace THEN 1 + wsRun(s, i + 1) ELSE 0

\* the length of the run of characters the dot matches that starts at i
RECURSIVE dotRun(_, _)
dotRun(s, i) ==
    IF i <= Len(s) /\ s[i] # "\n" THEN 1 + dotRun(s, i + 1) ELSE 0

\* the match of a pattern that starts at position i, if there is one
RECURSIVE matchAt(_, _, _)
matchAt(toks, s, i) ==
    IF toks = <<>> THEN [matched |-> TRUE, groups |-> <<>>]
    ELSE
      LET tok == Head(toks)
          rest == Tail(toks)
      IN  CASE tok.t = "lit" ->
                 IF litAt(s, i, tok.v) THEN matchAt(rest, s, i + Len(tok.v))
                 ELSE NoMatch
            [] tok.t = "alt" ->
                 LET ok == {k \in 1..Len(tok.v) :
                              /\ litAt(s, i, tok.v[k])
                              /\ matchAt(rest, s, i + Len(tok.v[k])).matched}
                 IN  IF ok = {} THEN NoMatch
                     ELSE matchAt(rest, s, i + Len(tok.v[MinOf(ok)]))
            [] tok.t = "ws" ->
                 LET ok == {n \in 1..wsRun(s, i) : matchAt(rest, s, i + n).matched}
                 IN  IF ok = {} THEN NoMatch
                     ELSE matchAt(rest, s, i + MaxOf(ok))
            [] tok.t = "opt" ->
                 LET taken == matchAt(tok.v \o rest, s, i)
                 IN  IF taken.matched THEN taken ELSE matchAt(rest, s, i)
            [] tok.t \in {"lazy", "greedy"} ->
                 LET ok == {n \in 1..dotRun(s, i) : matchAt(rest, s, i + n).matched}
                 IN  IF ok = {} THEN NoMatch
                     ELSE LET n == IF tok.t = "lazy" THEN MinOf(ok) ELSE MaxOf(ok)
                              r == matchAt(rest, s, i + n)
                          IN  [matched |-> TRUE,
                               groups |-> <<SubSeq(s, i, i + n - 1)>> \o r.groups]

\* String.prototype.match: the match at the leftmost position that has one
match(s, pattern) ==
    LET ok == {i \in 1..(Len(s) + 1) : matchAt(pattern, s, i).matched}
    IN  IF ok = {} THEN NoMatch ELSE matchAt(pattern, s, MinOf(ok))

\* detectModificationRequest: const triggers
triggers ==
    <<
      [ pattern |-> <<Lit(<<"a","d","d">>),
                      Ws,
                      Opt(<<Lit(<<"a">>), Ws>>),
                      Lazy,
                      Ws,
                      Alt(<<<<"t","r","a","c","k","e","r">>, <<"t","r","a","c","k","i","n","g">>>>)>>,
        action |-> "add_metric" ],
      [ pattern |-> <<Lit(<<"t","r","a","c","k">>),
                      Ws,
                      Opt(<<Lit(<<"m","y">>), Ws>>),
                      Greedy>>,
        action |-> "add_metric" ],
      [ pattern |-> <<Alt(<<<<"c","a","n"," ","y","o","u">>, <<"c","o","u","l","d"," ","y","o","u">>>>),
                      Ws,
                      Lit(<<"t","r","a","c","k">>),
                      Ws,
                      Greedy>>,
        action |-> "add_metric" ],
      [ pattern |-> <<Lit(<<"r","e","m","o","v","e">>),
                      Ws,
                      Opt(<<Lit(<<"t","h","e">>), Ws>>),
                      Lazy,
                      Ws,
                      Alt(<<<<"t","r","a","c","k","e","r">>, <<"t","r","a","c","k","i","n","g">>, <<"m","e","t","r","i","c">>>>)>>,
        action |-> "remove_metric" ],
      [ pattern |-> <<Lit(<<"d","e","l","e","t","e">>),
                      Ws,
                      Opt(<<Lit(<<"t","h","e">>), Ws>>),
                      Lazy,
                      Ws,
                      Alt(<<<<"t","r","a","c","k","e","r">>, <<"t","r","a","c","k","i","n","g">>, <<"m","e","t","r","i","c">>>>)>>,
        action |-> "remove_metric" ],
      [ pattern |-> <<Lit(<<"s","t","o","p"," ","t","r","a","c","k","i","n","g">>),
                      Ws,
                      Greedy>>,
        action |-> "remove_metric" ],
      [ pattern |-> <<Lit(<<"i"," ">>),
                      Alt(<<<<"d","o","n","'","t">>, <<"d","o","n","t">>>>),
                      Lit(<<" ">>),
                      Alt(<<<<"u","s","e">>, <<"n","e","e","d">>, <<"t","r","a","c","k">>>>),
                      Ws,
                      Greedy>>,
        action |-> "remove_metric" ],
      [ pattern |-> <<Lit(<<"a","d","d">>),
                      Ws,
                      Opt(<<Lit(<<"a">>), Ws>>),
                      Lit(<<"c","h","a","r","t">>),
                      Ws,
                      Alt(<<<<"f","o","r">>, <<"s","h","o","w","i","n","g">>, <<"o","f">>>>),
                      Ws,
                      Greedy>>,
        action |-> "add_chart" ],
      [ pattern |-> <<Alt(<<<<"c","r","e","a","t","e">>, <<"m","a","k","e">>, <<"s","h","o","w"," ","m","e">>>>),
                      Ws,
                      Opt(<<Lit(<<"a">>), Ws>>),
                      Lit(<<"c","h","a","r","t">>),
                      Ws,
                      Alt(<<<<"f","o","r">>, <<"o","f">>, <<"s","h","o","w","i","n","g">>>>),
                      Ws,
                      Greedy>>,
        action |-> "add_chart" ],
      [ pattern |-> <<Lit(<<"m","o","v","e">>),
                      Ws,
                      Lazy,
                      Ws,
                      Lit(<<"t","o">>),
                      Ws,
                      Opt(<<Lit(<<"t","h","e">>), Ws>>),
                      Greedy>>,
        action |-> "modify_layout" ],
      [ pattern |-> <<Lit(<<"u","n","d","o">>),
                      Ws,
                      Alt(<<<<"t","h","a","t">>, <<"t","h","e"," ","l","a","s","t"," ","c","h","a","n","g","e">>, <<"l","a","s","t"," ","m","o","d","i","f","i","c","a","t","i","o","n">>>>)>>,
        action |-> "undo" ],
      [ pattern |-> <<Alt(<<<<"r","o","l","l","b","a","c","k">>, <<"r","e","v","e","r","t">>, <<"g","o"," ","b","a","c","k">>>>)>>,
        action |-> "undo" ]
    >>

\* mutant of NotDetected: a message no trigger matches adds a metric
NotDetectedAddsMetric ==
    [detected |-> TRUE, action |-> "add_metric", text |-> <<"x">>]

\* return { detected: false }
NotDetected == [detected |-> FALSE, action |-> "none", text |-> <<>>]

\* trigger.extract(match): the trimmed first group (metric, chart_description
\* or element), nothing for undo
extract(trigger, m) ==
    IF trigger.action = "undo" THEN <<>> ELSE trim(m.groups[1])

\* mutant of detectFrom: the last trigger that matches decides
RECURSIVE detectFromLast(_, _)
detectFromLast(userMessage, k) ==
    IF k > Len(triggers) THEN NotDetected
    ELSE LET later == detectFromLast(userMessage, k + 1)
             m == match(userMessage, triggers[k].pattern)
         IN  IF later.detected THEN later
             ELSE IF m.matched
                  THEN [detected |-> TRUE, action |-> triggers[k].action,
                        text |-> extract(triggers[k], m)]
                  ELSE NotDetected

\* detectModificationRequest: the loop over the triggers, from trigger k on
RECURSIVE detectFrom(_, _)
detectFrom(userMessage, k) ==
    IF k > Len(triggers) THEN NotDetected
    ELSE LET m == match(userMessage, triggers[k].pattern)
         IN  IF m.matched
             THEN [detected |-> TRUE, action |-> triggers[k].action,
                   text |-> extract(triggers[k], m)]
             ELSE detectFrom(userMessage, k + 1)

detectModificationRequest(userMessage) == detectFrom(userMessage, 1)

\* messages of the conversation

U_addMoodTracking ==
    <<"a","d","d"," ","m","o","o","d"," ","t","r","a","c","k","i","n","g">>

U_AddWaterTracker ==
    <<"A","d","d"," ","a"," ","W","a","t","e","r"," ","t","r","a","c","k","e","r">>

U_trackMySteps ==
    <<"t","r","a","c","k"," ","m","y"," ","s","t","e","p","s">>

U_canYouTrackSleep ==
    <<"c","a","n"," ","y","o","u"," ","t","r","a","c","k"," ","s","l","e","e","p">>

U_removeStepsTracker ==
    <<"r","e","m","o","v","e"," ","t","h","e"," ","s","t","e","p","s"," ","t","r","a","c","k","e","r">>

U_deleteWaterMetric ==
    <<"d","e","l","e","t","e"," ","w","a","t","e","r"," ","m","e","t","r","i","c">>

U_stopTrackingWater ==
    <<"s","t","o","p"," ","t","r","a","c","k","i","n","g"," ","w","a","t","e","r">>

U_dontTrackWater ==
    <<"I"," ","d","o","n","'","t"," ","t","r","a","c","k"," ","w","a","t","e","r">>

U_dontNeedSteps ==
    <<"i"," ","d","o","n","t"," ","n","e","e","d"," ","s","t","e","p","s">>

U_addChartForMood ==
    <<"a","d","d"," ","a"," ","c","h","a","r","t"," ","f","o","r"," ","m","o","o","d">>

U_addChartForMoodTracking ==
    <<"a","d","d"," ","a"," ","c","h","a","r","t"," ","f","o","r"," ","m","o","o","d"," ","t","r","a","c","k","i","n","g">>

U_showMeChartOfMood ==
    <<"s","h","o","w"," ","m","e"," ","a"," ","c","h","a","r","t"," ","o","f"," ","m","o","o","d">>

U_moveChartToTop ==
    <<"m","o","v","e"," ","c","h","a","r","t"," ","t","o"," ","t","h","e"," ","t","o","p">>

U_undoThat ==
    <<"u","n","d","o"," ","t","h","a","t">>

U_pleaseRevert ==
    <<"p","l","e","a","s","e"," ","r","e","v","e","r","t">>

U_hello ==
    <<"h","e","l","l","o"," ","t","h","e","r","e">>

U_add5kTracker ==
    <<"a","d","d"," ","5","k"," ","t","r","a","c","k","e","r">>

U_addSelectTracking ==
    <<"a","d","d"," ","s","e","l","e","c","t"," ","t","r","a","c","k","i","n","g">>

U_trackBangs ==
    <<"t","r","a","c","k"," ","!","!","!">>

U_removeMoodTracker ==
    <<"r","e","m","o","v","e"," ","m","o","o","d"," ","t","r","a","c","k","e","r">>

Messages ==
    {U_addMoodTracking, U_AddWaterTracker, U_trackMySteps,
     U_canYouTrackSleep, U_removeStepsTracker, U_deleteWaterMetric,
     U_stopTrackingWater, U_dontTrackWater, U_dontNeedSteps,
     U_addChartForMood, U_addChartForMoodTracking, U_showMeChartOfMood,
     U_moveChartToTop, U_undoThat, U_pleaseRevert,
     U_hello, U_add5kTracker, U_addSelectTracking,
     U_trackBangs, U_removeMoodTracker}

\* what the detector answers for each message
detections == [m \in Messages |-> detectModificationRequest(m)]


(***************************************************************************)
(* Program constants.                                                      *)
(***************************************************************************)
Procs == {1, 2}

T_metrics == "metrics"

\* the columns CREATE TABLE gives the metrics table
BaseColumns ==
    { <<"i","d">>, <<"d","a","t","e">>, <<"s","l","e","e","p">>,
      <<"e","n","e","r","g","y">>, <<"k","n","e","e","_","p","a","i","n">>,
      <<"s","e","l","t","z","e","r","s">>, <<"w","a","t","e","r","_","o","z">>,
      <<"w","o","r","k","o","u","t","_","d","o","n","e">>,
      <<"w","e","i","g","h","t">>, <<"s","t","e","p","s">>,
      <<"c","a","l","o","r","i","e","s","_","c","o","n","s","u","m","e","d">>,
      <<"c","r","e","a","t","e","d","_","a","t">> }

\* validateFieldName: const reserved
reserved ==
    { <<"s","e","l","e","c","t">>, <<"i","n","s","e","r","t">>,
      <<"u","p","d","a","t","e">>, <<"d","e","l","e","t","e">>,
      <<"d","r","o","p">>, <<"t","a","b","l","e">>, <<"f","r","o","m">>,
      <<"w","h","e","r","e">> }

\* validateDataType: const validTypes
validTypes == {"TEXT", "INTEGER", "REAL", "BOOLEAN", "DATETIME"}

\* mutant of validateFieldName: every name passes
validateFieldNameAcceptsAll(fieldName) == TRUE

\* validateFieldName: TRUE when it returns true, FALSE when it throws
validateFieldName(fieldName) ==
    /\ ToLower(fieldName) \notin reserved
    /\ fieldName # <<>>
    /\ LowerChar(fieldName[1]) = "_" \/ IsLower(LowerChar(fieldName[1]))
    /\ \A i \in 2..Len(fieldName) :
           LowerChar(fieldName[i]) = "_" \/ IsAlnum(LowerChar(fieldName[i]))

\* dataType.toUpperCase(), on the spellings of a type the callers pass
toUpperCase(dataType) ==
    CASE dataType \in {"TEXT", "Text", "text"} -> "TEXT"
      [] dataType \in {"INTEGER", "Integer", "integer"} -> "INTEGER"
      [] dataType \in {"REAL", "Real", "real"} -> "REAL"
      [] dataType \in {"BOOLEAN", "Boolean", "boolean"} -> "BOOLEAN"
      [] dataType \in {"DATETIME", "DateTime", "datetime"} -> "DATETIME"
      [] dataType \in {"BLOB", "Blob", "blob"} -> "BLOB"
      [] OTHER -> dataType

\* validateDataType: TRUE when it returns true, FALSE when it throws
validateDataType(dataType) == toUpperCase(dataType) \in validTypes

(***************************************************************************)
(* Requests.  A request is what processModification receives: the action   *)
(* and the text the detector (or the manual endpoint) extracted.           *)
(***************************************************************************)
M_water == <<"w","a","t","e","r">>

M_moodChart == <<"m","o","o","d"," ","c","h","a","r","t">>

M_steps == <<"s","t","e","p","s">>

D_mood == <<"m","o","o","d">>

MetricNames == {M_water, M_moodChart, M_steps}

ChartDescriptions == {D_mood}

NoText == <<>>

Requests ==
    [action : {"add_metric", "remove_metric"}, text : MetricNames]
      \cup [action : {"add_chart"}, text : ChartDescriptions]
      \cup [action : {"undo"}, text : {NoText}]

\* POST /api/modifications/execute passes any action of the request body on
\* to processModification; these are actions it has no case for
UnhandledActions == {"modify_layout", "rename_metric"}

UnhandledRequests == [action : UnhandledActions, text : {M_water, NoText}]

\* Direct calls of the schema engine: addField(table, field, dataType) and
\* removeField(table, field, softDelete) on the metrics table.
F_select == <<"s","e","l","e","c","t">>

F_Select == <<"S","e","l","e","c","t">>

F_5k == <<"5","k">>

ApiFields == {M_water, D_mood, M_steps, F_select, F_Select, F_5k}

ApiTypes == {"INTEGER", "Text", "BLOB"}

ApiRequests ==
    [action : {"addField"}, text : ApiFields, dataType : ApiTypes,
     softDelete : {TRUE}]
      \cup [action : {"removeField"}, text : ApiFields, dataType : {"none"},
            softDelete : BOOLEAN]

\* detectModificationRequest: componentType, decided from the metric name
componentTypeOf(metric) ==
    IF Includes(ToLower(metric), <<"m","o","o","d">>)
    THEN "emoji_select" ELSE "metric_input"

\* addChart: metricToComponentName(chartDescription + ' Chart')
chartComponentName(chartDescription) ==
    metricToComponentName(chartDescription \o <<" ","C","h","a","r","t">>)

(***************************************************************************)
(* State.                                                                  *)
(***************************************************************************)
VARIABLES
    columns,    \* cherry.db: table -> set of physical column names
    log,        \* migrations.json: the sequence "migrations"
    registry,   \* active.json: the sequence "components"
    files,      \* COMPONENTS_DIR: names of the components that have a .jsx body
    now,        \* the clock new Date() reads
    txLeft,     \* transactions the run may still start
    faults,     \* I/O failures injected so far
    tx          \* per request: position and local variables

vars == <<columns, log, registry, files, now, txLeft, faults, tx>>

\* absent values: a string, a record, a name or field, a document
None == "none"

NoRecord == [type |-> "none"]

NoRequest == [action |-> "none", text |-> <<>>]

\* the field of a component registered without one (a chart)
NoField == <<"undefined">>

NoName == <<>>

NoDoc == <<>>

\* no text generated yet
NoCode == <<>>

\* the local variables of one request; pc is the await it is suspended at
IdleTx ==
    [ pc            |-> "idle",
      req           |-> NoRequest,
      backupDir     |-> NoRecord,  \* the snapshot createBackup wrote
      before        |-> NoRecord,  \* history: the live state at that call
      atRestore     |-> NoRecord,  \* history: the live state when restoreBackup was called
      doc           |-> NoDoc,     \* the document a read-modify-write holds
      component     |-> NoName,    \* the component found / to delete
      lastMigration |-> NoRecord,  \* undo: migrations[migrations.length - 1]
      lastComponent |-> NoRecord,  \* undo: components[components.length - 1]
      generated     |-> NoCode,    \* generateComponent: generatedCode
      registered    |-> None,    \* what registerComponent returned
      notification  |-> None,    \* how sendPushNotification went
      result        |-> None ]   \* what the transaction returned or threw

TypeOK ==
    /\ columns \in [{T_metrics} -> SUBSET Seq({"_"} \cup Digits \cup
                       {LowerAlpha[i] : i \in 1..26})]
    /\ now \in Nat
    /\ txLeft \in Nat
    /\ faults \in 0..MaxFaults
    /\ DOMAIN tx = Procs

InitData ==
    /\ columns = [t \in {T_metrics} |-> BaseColumns]
    /\ log = <<>>
    /\ registry = <<>>
    /\ files = {}
    /\ now = 0
    /\ faults = 0
    /\ tx = [p \in Procs |-> IdleTx]

\* the sequential runs: one request at a time
SeqInit == InitData /\ txLeft = MaxTxns

\* the concurrent runs: two requests in flight
Init == InitData /\ txLeft = MaxConcTxns

\* the conversation: one message at a time
ChatInit == InitData /\ txLeft = MaxChats

\* an injected I/O failure
Fault == faults < MaxFaults /\ faults' = faults + 1

NoFault == faults' = faults

Done(t, res) == [t EXCEPT !.pc = "done", !.result = res]

(***************************************************************************)
(* Pure parts of the schema engine, the registry and the orchestrator.     *)
(***************************************************************************)
\* mutant of fieldExists: the rows are never matched
fieldExistsNeverMatches(cols, field) == FALSE

\* fieldExists: columns.some(col => col.name === field) on the PRAGMA's rows
fieldExists(cols, field) == field \in cols

\* the record logMigration pushes
MigrationRecord(type, table, field, dataType, at) ==
    [type |-> type, table |-> table, field |-> field, dataType |-> dataType,
     executed_at |-> at]

\* the record registerComponent pushes
ComponentRecord(name, type, field, location, at) ==
    [name |-> name, type |-> type, field |-> field, location |-> location,
     registered_at |-> at]

\* mutant of isRegistered: no name is ever found
isRegisteredNever(components, name) == FALSE

\* registerComponent: active.components.find(c => c.name === componentInfo.name)
isRegistered(components, name) ==
    \E i \in 1..Len(components) : components[i].name = name

\* unregisterComponent: findIndex, then splice(index, 1)
spliceComponent(components, name) ==
    LET index == CHOOSE i \in 1..Len(components) :
                     /\ components[i].name = name
                     /\ \A j \in 1..(i - 1) : components[j].name # name
    IN  SubSeq(components, 1, index - 1)
          \o SubSeq(components, index + 1, Len(components))

\* mutant of findByField: the first component, whatever its field
findByFieldAny(components, fieldName) ==
    IF components # <<>> THEN components[1] ELSE NoRecord

\* removeMetricTracker: components.find(c => c.field === fieldName)
findByField(components, fieldName) ==
    IF \E i \in 1..Len(components) : components[i].field = fieldName
    THEN components[CHOOSE i \in 1..Len(components) :
                       /\ components[i].field = fieldName
                       /\ \A j \in 1..(i - 1) : components[j].field # fieldName]
    ELSE NoRecord

\* mutant of getActiveFields: the log is not consulted
getActiveFieldsIgnoresLog(table) == columns[table]

\* getActiveFields: the physical columns without the fields of the log's
\* soft_delete_field records for the table
getActiveFields(table) ==
    LET softDeleted == { log[i].field : i \in
                           { j \in 1..Len(log) :
                               /\ log[j].type = "soft_delete_field"
                               /\ log[j].table = table } }
    IN  columns[table] \ softDeleted

\* undoLastModification: new Date(x.executed_at | registered_at), or new Date(0)
migrationTime(lastMigration) ==
    IF lastMigration # NoRecord THEN lastMigration.executed_at ELSE 0

componentTime(lastComponent) ==
    IF lastComponent # NoRecord THEN lastComponent.registered_at ELSE 0

\* mutant of undoChoice: the timestamps are not compared
undoChoiceIgnoresTime(lastMigration, lastComponent) ==
    IF lastMigration = NoRecord THEN "throws"
    ELSE IF lastMigration.type = "add_field" THEN "migration"
    ELSE "undo_failed"

\* undoLastModification: which of the two most recent records to reverse
undoChoice(lastMigration, lastComponent) ==
    IF componentTime(lastComponent) > migrationTime(lastMigration)
    THEN "component"
    ELSE IF lastMigration = NoRecord THEN "throws"   \* TypeError
    ELSE IF lastMigration.type = "add_field" THEN "migration"
    ELSE "undo_failed"

Last(seq) == IF seq = <<>> THEN NoRecord ELSE seq[Len(seq)]

\* the names a transaction derives from its request
fieldNameOf(t) ==
    CASE t.req.action = "undo" -> t.lastMigration.field
      [] t.req.action \in {"addField", "removeField"} -> t.req.text
      [] OTHER -> metricToFieldName(t.req.text)

\* the data type addField is called with
dataTypeOf(t) ==
    IF t.req.action = "addField" THEN t.req.dataType
    ELSE inferDataType(t.req.text)

componentNameOf(t) ==
    IF t.req.action = "add_chart" THEN chartComponentName(t.req.text)
    ELSE metricToComponentName(t.req.text)

\* mutant of onAlreadyExists: the outcome of addField is ignored
onAlreadyExistsGoesOn(t) == [t EXCEPT !.pc = "generate"]

\* addMetricTracker: addField answered already_exists; the outcome is returned
onAlreadyExists(t) == Done(t, "already_exists")

\* mutant of AfterLog: the component is registered as soon as the field is logged
AfterLogRegisters(t) ==
    CASE t.req.action = "add_metric" -> [t EXCEPT !.pc = "register_read", !.doc = NoDoc]
      [] t.req.action = "remove_metric" -> [t EXCEPT !.pc = "unlink", !.doc = NoDoc]
      [] OTHER -> Done([t EXCEPT !.doc = NoDoc], "success")

\* where a transaction goes on when logMigration has returned
AfterLog(t) ==
    CASE t.req.action = "add_metric" -> [t EXCEPT !.pc = "generate", !.doc = NoDoc]
      [] t.req.action = "remove_metric" -> [t EXCEPT !.pc = "unlink", !.doc = NoDoc]
      [] t.req.action = "undo" -> Done([t EXCEPT !.doc = NoDoc], "success")
      [] t.req.action \in {"addField", "removeField"} ->
           Done([t EXCEPT !.doc = NoDoc], "success")

\* mutant of onUnknownAction: the request is answered as done
onUnknownActionSucceeds(t) == Done(t, "success")

\* processModification, default: throw new Error('Unknown modification
\* action'); the route answers 500, the conversation stores { error }
onUnknownAction(t) == Done(t, "error")

\* where a transaction goes on when deleteComponent has returned
AfterDelete(t) ==
    CASE t.req.action = "remove_metric" -> [t EXCEPT !.pc = "notify", !.doc = NoDoc]
      [] t.req.action = "undo" -> Done([t EXCEPT !.doc = NoDoc], "success")

(***************************************************************************)
(* processModification: a request arrives and is dispatched.               *)
(***************************************************************************)
processModification(p, r) ==
    /\ tx[p].pc = "idle"
    /\ txLeft > 0
    /\ txLeft' = txLeft - 1
    /\ LET t == [IdleTx EXCEPT !.req = r]
       IN  tx' = [tx EXCEPT ![p] =
                    CASE r.action \in {"add_metric", "remove_metric", "add_chart"} ->
                           [t EXCEPT !.pc = "backup"]
                      [] r.action = "undo" -> [t EXCEPT !.pc = "undo_migrations"]
                      [] OTHER -> onUnknownAction(t)]
    /\ UNCHANGED <<columns, log, registry, files, now, faults>>

(***************************************************************************)
(* extractDataFromConversation: the detector runs on the user message.     *)
(* Nothing detected: processModification is not called.  Otherwise the     *)
(* request is dispatched; an action processModification does not know      *)
(* (modify_layout) throws, which the caller catches and reports.           *)
(***************************************************************************)
extractDataFromConversation(p, userMessage) ==
    /\ tx[p].pc = "idle"
    /\ txLeft > 0
    /\ txLeft' = txLeft - 1
    /\ LET modRequest == detections[userMessage]
           r == [action |-> modRequest.action, text |-> modRequest.text,
                 rawMessage |-> userMessage]
           t == [IdleTx EXCEPT !.req = r]
       IN  tx' = [tx EXCEPT ![p] =
                    IF ~modRequest.detected THEN Done(t, "not_detected")
                    ELSE CASE r.action \in {"add_metric", "remove_metric",
                                            "add_chart"} ->
                                [t EXCEPT !.pc = "backup"]
                           [] r.action = "undo" ->
                                [t EXCEPT !.pc = "undo_migrations"]
                           [] OTHER -> onUnknownAction(t)]
    /\ UNCHANGED <<columns, log, registry, files, now, faults>>

(***************************************************************************)
(* A direct call of addField or removeField: the synchronous validation    *)
(* runs, then the PRAGMA of fieldExists is issued.                         *)
(***************************************************************************)
callSchemaMigration(p, r) ==
    /\ tx[p].pc = "idle"
    /\ txLeft > 0
    /\ txLeft' = txLeft - 1
    /\ LET t == [IdleTx EXCEPT !.req = r]
           valid == IF r.action = "addField"
                    THEN validateFieldName(r.text) /\ validateDataType(r.dataType)
                    ELSE validateFieldName(r.text)
       IN  tx' = [tx EXCEPT ![p] =
                    IF valid THEN [t EXCEPT !.pc = "exists"] ELSE Done(t, "error")]
    /\ UNCHANGED <<columns, log, registry, files, now, faults>>

(***************************************************************************)
(* createBackup resolves; the transaction runs on to its next await.       *)
(*   add_metric:    names derived, addField validates, PRAGMA issued       *)
(*   remove_metric: listComponents issued                                  *)
(*   add_chart:     the generator is called                                *)
(***************************************************************************)
\* the backup directory holds no cherry.db
NoDb == [t \in {T_metrics} |-> {}]

\* what createBackup leaves in the backup directory: cherry.db and
\* active.json when their copy succeeded (has), and the component files
\* copied before a failure (copied)
BackupSnapshot(has, copied) ==
    [ db |-> IF "db" \in has THEN columns ELSE NoDb,
      components |-> copied,
      active |-> IF "active" \in has THEN registry ELSE <<>>,
      has |-> has ]

\* the live state at the call of createBackup
LiveState == [db |-> columns, components |-> files, active |-> registry]

\* mutant of createBackup: the transaction goes on without its snapshot
createBackupSkipped(p) ==
    /\ tx[p].pc = "backup"
    /\ NoFault
    /\ tx' = [tx EXCEPT ![p] =
                [tx[p] EXCEPT !.pc =
                    CASE tx[p].req.action = "add_metric" -> "exists"
                      [] tx[p].req.action = "remove_metric" -> "list"
                      [] tx[p].req.action = "add_chart" -> "generate"]]
    /\ UNCHANGED <<columns, log, registry, files, now, txLeft>>

createBackup(p) ==
    /\ tx[p].pc = "backup"
    /\ \/ \* the directory is made; a failed copy of cherry.db, and a failure
          \* while the components and active.json are copied, are caught and
          \* logged, and the directory is returned all the same
          \E has \in SUBSET {"db", "active"} : \E copied \in SUBSET files :
          /\ "active" \in has => copied = files
          /\ faults + (2 - Cardinality(has)) <= MaxFaults
          /\ faults' = faults + (2 - Cardinality(has))
          /\ LET t == [tx[p] EXCEPT !.backupDir = BackupSnapshot(has, copied),
                                    !.before = LiveState]
                 a == t.req.action
             IN  tx' = [tx EXCEPT ![p] =
                   CASE a = "add_metric" ->
                          IF /\ validateFieldName(metricToFieldName(t.req.text))
                             /\ validateDataType(inferDataType(t.req.text))
                          THEN [t EXCEPT !.pc = "exists"]
                          ELSE Done(t, "error")
                     [] a = "remove_metric" -> [t EXCEPT !.pc = "list"]
                     [] a = "add_chart" -> [t EXCEPT !.pc = "generate"]
                     [] a = "createBackup" -> [t EXCEPT !.pc = "holding"]]
       \/ \* mkdir of the backup directory fails: createBackup throws
          /\ Fault
          /\ tx' = [tx EXCEPT ![p] = Done(tx[p], "error")]
    /\ UNCHANGED <<columns, log, registry, files, now, txLeft>>

(***************************************************************************)
(* ComponentManager called directly: createBackup(), and later             *)
(* restoreBackup(backupDir) with the directory that call returned.         *)
(* restoreBackup copies cherry.db, then every file of the saved components *)
(* directory, then active.json; the first copy that fails ends it with     *)
(* false, and what was copied before stays copied.                         *)
(***************************************************************************)
callCreateBackup(p) ==
    /\ tx[p].pc = "idle"
    /\ txLeft > 0
    /\ txLeft' = txLeft - 1
    /\ tx' = [tx EXCEPT ![p] =
                [IdleTx EXCEPT !.req = [action |-> "createBackup", text |-> NoText],
                               !.pc = "backup"]]
    /\ UNCHANGED <<columns, log, registry, files, now, faults>>

\* mutant of restoredDb: the live database is left as it is
restoredDbKept(backupDir) == columns

\* copyFile(backupDir/cherry.db, ./cherry.db)
restoredDb(backupDir) == backupDir.db

restoreDb(p) ==
    /\ tx[p].pc = "holding"
    /\ LET t == [tx[p] EXCEPT !.atRestore = LiveState]
       IN  \/ /\ "db" \in t.backupDir.has
              /\ NoFault
              /\ columns' = restoredDb(t.backupDir)
              /\ tx' = [tx EXCEPT ![p] = [t EXCEPT !.pc = "restore_components"]]
           \/ \* the directory holds no cherry.db: copyFile rejects
              /\ "db" \notin t.backupDir.has
              /\ NoFault
              /\ UNCHANGED columns
              /\ tx' = [tx EXCEPT ![p] = Done(t, "false")]
           \/ /\ Fault
              /\ UNCHANGED columns
              /\ tx' = [tx EXCEPT ![p] = Done(t, "false")]
    /\ UNCHANGED <<log, registry, files, now, txLeft>>

restoreComponents(p) ==
    /\ tx[p].pc = "restore_components"
    /\ \/ /\ NoFault
          /\ files' = files \cup tx[p].backupDir.components
          /\ tx' = [tx EXCEPT ![p] = [tx[p] EXCEPT !.pc = "restore_active"]]
       \/ \* readdir or a copy fails: the files copied so far stay
          /\ Fault
          /\ \E copied \in SUBSET tx[p].backupDir.components :
                files' = files \cup copied
          /\ tx' = [tx EXCEPT ![p] = Done(tx[p], "false")]
    /\ UNCHANGED <<columns, log, registry, now, txLeft>>

restoreActive(p) ==
    /\ tx[p].pc = "restore_active"
    /\ \/ /\ "active" \in tx[p].backupDir.has
          /\ NoFault
          /\ registry' = tx[p].backupDir.active
          /\ tx' = [tx EXCEPT ![p] = Done(tx[p], "true")]
       \/ \* the directory holds no active.json: copyFile rejects
          /\ "active" \notin tx[p].backupDir.has
          /\ NoFault
          /\ UNCHANGED registry
          /\ tx' = [tx EXCEPT ![p] = Done(tx[p], "false")]
       \/ /\ Fault
          /\ UNCHANGED registry
          /\ tx' = [tx EXCEPT ![p] = Done(tx[p], "false")]
    /\ UNCHANGED <<columns, log, files, now, txLeft>>

(***************************************************************************)
(* addField / removeField: the PRAGMA of fieldExists answers.              *)
(***************************************************************************)
fieldExistsStep(p) ==
    /\ tx[p].pc = "exists"
    /\ \E exists \in BOOLEAN :
          /\ \/ NoFault /\ exists = fieldExists(columns[T_metrics], fieldNameOf(tx[p]))
             \/ Fault /\ exists = FALSE        \* if (err) resolve(false)
          /\ tx' = [tx EXCEPT ![p] =
               CASE tx[p].req.action = "add_metric" ->
                      IF exists THEN onAlreadyExists(tx[p])
                      ELSE [tx[p] EXCEPT !.pc = "alter"]
                 [] tx[p].req.action = "remove_metric" ->
                      \* not_found is returned and removeMetricTracker ignores it
                      IF exists THEN [tx[p] EXCEPT !.pc = "log_read"]
                      ELSE [tx[p] EXCEPT !.pc = "unlink"]
                 [] tx[p].req.action = "undo" ->
                      IF exists THEN [tx[p] EXCEPT !.pc = "log_read"]
                      ELSE Done(tx[p], "success")
                 [] tx[p].req.action = "addField" ->
                      IF exists THEN Done(tx[p], "already_exists")
                      ELSE [tx[p] EXCEPT !.pc = "alter"]
                 [] tx[p].req.action = "removeField" ->
                      IF ~exists THEN Done(tx[p], "not_found")
                      ELSE IF tx[p].req.softDelete
                           THEN [tx[p] EXCEPT !.pc = "log_read"]
                           ELSE Done(tx[p], "hard_delete_not_supported")]
    /\ UNCHANGED <<columns, log, registry, files, now, txLeft>>

(***************************************************************************)
(* addField: db.run(ALTER TABLE ... ADD COLUMN) answers.  The store        *)
(* rejects a column that exists.                                           *)
(***************************************************************************)
alterTable(p) ==
    /\ tx[p].pc = "alter"
    /\ LET field == fieldNameOf(tx[p])
       IN  \/ /\ NoFault
              /\ field \notin columns[T_metrics]
              /\ columns' = [columns EXCEPT ![T_metrics] = @ \cup {field}]
              /\ tx' = [tx EXCEPT ![p] = [tx[p] EXCEPT !.pc = "log_read"]]
           \/ \* duplicate column: { success: false, error }, the caller throws
              /\ NoFault
              /\ field \in columns[T_metrics]
              /\ tx' = [tx EXCEPT ![p] = Done(tx[p], "error")]
              /\ UNCHANGED columns
           \/ \* store error
              /\ Fault
              /\ tx' = [tx EXCEPT ![p] = Done(tx[p], "error")]
              /\ UNCHANGED columns
    /\ UNCHANGED <<log, registry, files, now, txLeft>>

(***************************************************************************)
(* logMigration: getMigrationsLog answers, the record is pushed with       *)
(* executed_at = new Date(), writeFile is issued.                          *)
(***************************************************************************)
logMigrationRead(p) ==
    /\ tx[p].pc = "log_read"
    /\ now' = now + 1
    /\ LET t == tx[p]
           record == IF t.req.action \in {"add_metric", "addField"}
                     THEN MigrationRecord("add_field", T_metrics, fieldNameOf(t),
                                          dataTypeOf(t), now')
                     ELSE MigrationRecord("soft_delete_field", T_metrics,
                                          fieldNameOf(t), None, now')
       IN  \E read \in {log, <<>>} :
              /\ \/ NoFault /\ read = log
                 \/ Fault /\ read = <<>>      \* catch: { migrations: [] }
              /\ tx' = [tx EXCEPT ![p] =
                          [t EXCEPT !.pc = "log_write", !.doc = Append(read, record)]]
    /\ UNCHANGED <<columns, log, registry, files, txLeft>>

logMigrationWrite(p) ==
    /\ tx[p].pc = "log_write"
    /\ \/ /\ NoFault
          /\ log' = tx[p].doc
          /\ tx' = [tx EXCEPT ![p] = AfterLog(tx[p])]
       \/ \* writeFile rejects.  In addField the rejection is inside the
          \* db.run callback: the promise of addField never settles.
          /\ Fault
          /\ UNCHANGED log
          /\ tx' = [tx EXCEPT ![p] =
                      IF tx[p].req.action \in {"add_metric", "addField"}
                      THEN [tx[p] EXCEPT !.pc = "hung", !.doc = NoDoc]
                      ELSE Done([tx[p] EXCEPT !.doc = NoDoc], "error")]
    /\ UNCHANGED <<columns, registry, files, now, txLeft>>

(***************************************************************************)
(* generateComponent answers: { success: true, code } or, when the oracle  *)
(* fails or the text does not start with the export shape,                 *)
(* { success: false }, on which the caller throws.  No timeout is set on   *)
(* the request: while the oracle does not answer, the await does not       *)
(* return.                                                                 *)
(***************************************************************************)
generateComponent(p) ==
    /\ tx[p].pc = "generate"
    /\ \/ \E text \in OracleTexts :
             LET code == generatedCode(text)
                 t == [tx[p] EXCEPT !.generated = code]
             IN  tx' = [tx EXCEPT ![p] =
                          IF startsWith(code, ExportShape)
                          THEN [t EXCEPT !.pc = "save"]
                          ELSE Done(t, "error")]
       \/ \* messages.create rejects: the catch returns { success: false }
          tx' = [tx EXCEPT ![p] = Done(tx[p], "error")]
       \/ \* the oracle never answers
          tx' = [tx EXCEPT ![p] = [tx[p] EXCEPT !.pc = "stalled"]]
    /\ UNCHANGED <<columns, log, registry, files, now, txLeft, faults>>

(***************************************************************************)
(* saveComponent: writeFile of <name>.jsx answers; registerComponent       *)
(* issues its read of active.json.                                         *)
(***************************************************************************)
saveComponent(p) ==
    /\ tx[p].pc = "save"
    /\ \/ /\ NoFault
          /\ files' = files \cup {componentNameOf(tx[p])}
          /\ tx' = [tx EXCEPT ![p] = [tx[p] EXCEPT !.pc = "register_read"]]
       \/ /\ Fault
          /\ UNCHANGED files
          /\ tx' = [tx EXCEPT ![p] = Done(tx[p], "error")]
    /\ UNCHANGED <<columns, log, registry, now, txLeft>>

(***************************************************************************)
(* registerComponent: getActiveComponents answers; a name already present  *)
(* returns false, otherwise the record is pushed with registered_at =      *)
(* new Date() and writeFile is issued.                                     *)
(***************************************************************************)
registerRead(p) ==
    /\ tx[p].pc = "register_read"
    /\ LET t == tx[p]
           name == componentNameOf(t)
           record == IF t.req.action = "add_metric"
                     THEN ComponentRecord(name, componentTypeOf(t.req.text),
                                          fieldNameOf(t), "dashboard", now + 1)
                     ELSE ComponentRecord(name, "chart", NoField, "analytics",
                                          now + 1)
       IN  \E active \in {registry, <<>>} :
              /\ \/ NoFault /\ active = registry
                 \/ Fault /\ active = <<>>     \* catch: { components: [] }
              /\ IF isRegistered(active, name)
                 THEN /\ tx' = [tx EXCEPT ![p] =
                                  [t EXCEPT !.pc = "notify", !.registered = "false"]]
                      /\ UNCHANGED now
                 ELSE /\ tx' = [tx EXCEPT ![p] =
                                  [t EXCEPT !.pc = "register_write",
                                            !.doc = Append(active, record)]]
                      /\ now' = now + 1
    /\ UNCHANGED <<columns, log, registry, files, txLeft>>

registerWrite(p) ==
    /\ tx[p].pc = "register_write"
    /\ \/ /\ NoFault
          /\ registry' = tx[p].doc
          /\ tx' = [tx EXCEPT ![p] =
                      [tx[p] EXCEPT !.pc = "notify", !.doc = NoDoc,
                                    !.registered = "true"]]
       \/ /\ Fault
          /\ UNCHANGED registry
          /\ tx' = [tx EXCEPT ![p] = Done([tx[p] EXCEPT !.doc = NoDoc], "error")]
    /\ UNCHANGED <<columns, log, files, now, txLeft>>

(***************************************************************************)
(* sendPushNotification resolves (it never rejects): when the query of the *)
(* subscriptions fails it resolves at once, and an error of a send is      *)
(* caught and logged.  The transaction returns { success: true }.          *)
(***************************************************************************)
NotificationOutcomes == {"sent", "store_error", "send_error"}

\* mutant of afterNotification: a failed notification fails the transaction
afterNotificationThrows(t, outcome) ==
    IF outcome = "sent" THEN Done([t EXCEPT !.notification = outcome], "success")
    ELSE Done([t EXCEPT !.notification = outcome], "error")

\* the transaction returns its success result after the await
afterNotification(t, outcome) ==
    Done([t EXCEPT !.notification = outcome], "success")

sendPushNotification(p) ==
    /\ tx[p].pc = "notify"
    /\ \E outcome \in NotificationOutcomes :
          /\ \/ outcome = "sent" /\ NoFault
             \/ outcome # "sent" /\ Fault
          /\ tx' = [tx EXCEPT ![p] = afterNotification(tx[p], outcome)]
    /\ UNCHANGED <<columns, log, registry, files, now, txLeft>>

(***************************************************************************)
(* removeMetricTracker: listComponents answers; the component of the       *)
(* field is looked up; removeField validates and issues its PRAGMA.        *)
(***************************************************************************)
listComponents(p) ==
    /\ tx[p].pc = "list"
    /\ \E components \in {registry, <<>>} :
          /\ \/ NoFault /\ components = registry
             \/ Fault /\ components = <<>>
          /\ LET fieldName == metricToFieldName(tx[p].req.text)
                 component == findByField(components, fieldName)
             IN  tx' = [tx EXCEPT ![p] =
                   IF component = NoRecord THEN Done(tx[p], "not_found")
                   ELSE IF ~validateFieldName(fieldName) THEN Done(tx[p], "error")
                   ELSE [tx[p] EXCEPT !.pc = "exists",
                                      !.component = component.name]]
    /\ UNCHANGED <<columns, log, registry, files, now, txLeft>>

(***************************************************************************)
(* deleteComponent: unlink answers.  A missing file rejects; the catch     *)
(* returns false and unregisterComponent is not called.                    *)
(***************************************************************************)
unlinkComponent(p) ==
    /\ tx[p].pc = "unlink"
    /\ \/ /\ NoFault
          /\ tx[p].component \in files
          /\ files' = files \ {tx[p].component}
          /\ tx' = [tx EXCEPT ![p] = [tx[p] EXCEPT !.pc = "unregister_read"]]
       \/ /\ NoFault
          /\ tx[p].component \notin files
          /\ UNCHANGED files
          /\ tx' = [tx EXCEPT ![p] = AfterDelete(tx[p])]
       \/ /\ Fault
          /\ UNCHANGED files
          /\ tx' = [tx EXCEPT ![p] = AfterDelete(tx[p])]
    /\ UNCHANGED <<columns, log, registry, now, txLeft>>

(***************************************************************************)
(* unregisterComponent: getActiveComponents answers; an unknown name       *)
(* returns false, otherwise the record is spliced out and writeFile is     *)
(* issued.                                                                 *)
(***************************************************************************)
unregisterRead(p) ==
    /\ tx[p].pc = "unregister_read"
    /\ \E active \in {registry, <<>>} :
          /\ \/ NoFault /\ active = registry
             \/ Fault /\ active = <<>>
          /\ tx' = [tx EXCEPT ![p] =
               IF isRegistered(active, tx[p].component)
               THEN [tx[p] EXCEPT !.pc = "unregister_write",
                                  !.doc = <<spliceComponent(active, tx[p].component)>>]
               ELSE AfterDelete(tx[p])]
    /\ UNCHANGED <<columns, log, registry, files, now, txLeft>>

unregisterWrite(p) ==
    /\ tx[p].pc = "unregister_write"
    /\ \/ /\ NoFault
          /\ registry' = tx[p].doc[1]
       \/ \* writeFile rejects: deleteComponent's catch returns false
          /\ Fault
          /\ UNCHANGED registry
    /\ tx' = [tx EXCEPT ![p] = AfterDelete(tx[p])]
    /\ UNCHANGED <<columns, log, files, now, txLeft>>

(***************************************************************************)
(* undoLastModification: listMigrations answers, then listComponents       *)
(* answers and the more recent of the two last records is chosen.          *)
(***************************************************************************)
undoListMigrations(p) ==
    /\ tx[p].pc = "undo_migrations"
    /\ \E migrations \in {log, <<>>} :
          /\ \/ NoFault /\ migrations = log
             \/ Fault /\ migrations = <<>>
          /\ tx' = [tx EXCEPT ![p] =
                      [tx[p] EXCEPT !.pc = "undo_components",
                                    !.lastMigration = Last(migrations)]]
    /\ UNCHANGED <<columns, log, registry, files, now, txLeft>>

undoListComponents(p) ==
    /\ tx[p].pc = "undo_components"
    /\ \E components \in {registry, <<>>} :
          /\ \/ NoFault /\ components = registry
             \/ Fault /\ components = <<>>
          /\ LET t == tx[p]
                 lastComponent == Last(components)
                 choice == undoChoice(t.lastMigration, lastComponent)
             IN  tx' = [tx EXCEPT ![p] =
                   IF t.lastMigration = NoRecord /\ lastComponent = NoRecord
                   THEN Done(t, "nothing_to_undo")
                   ELSE CASE choice = "component" ->
                               [t EXCEPT !.pc = "unlink",
                                         !.lastComponent = lastComponent,
                                         !.component = lastComponent.name]
                          [] choice = "migration" ->
                               IF validateFieldName(t.lastMigration.field)
                               THEN [t EXCEPT !.pc = "exists",
                                              !.lastComponent = lastComponent]
                               ELSE Done(t, "error")
                          [] choice = "undo_failed" ->
                               Done([t EXCEPT !.lastComponent = lastComponent],
                                    "undo_failed")
                          [] choice = "throws" -> Done(t, "error")]
    /\ UNCHANGED <<columns, log, registry, files, now, txLeft>>

(***************************************************************************)
(* The response is sent: the request is over.                              *)
(***************************************************************************)
respond(p) ==
    /\ tx[p].pc = "done"
    /\ tx' = [tx EXCEPT ![p] = IdleTx]
    /\ UNCHANGED <<columns, log, registry, files, now, txLeft, faults>>

(***************************************************************************)
(* Specifications.                                                         *)
(***************************************************************************)
Step(p) ==
    \/ \E r \in Requests : processModification(p, r)
    \/ createBackup(p)
    \/ fieldExistsStep(p)
    \/ alterTable(p)
    \/ logMigrationRead(p)
    \/ logMigrationWrite(p)
    \/ generateComponent(p)
    \/ saveComponent(p)
    \/ registerRead(p)
    \/ registerWrite(p)
    \/ sendPushNotification(p)
    \/ listComponents(p)
    \/ unlinkComponent(p)
    \/ unregisterRead(p)
    \/ unregisterWrite(p)
    \/ undoListMigrations(p)
    \/ undoListComponents(p)
    \/ respond(p)

\* requests interleave at their awaits
Next == \E p \in Procs : Step(p)

Spec == Init /\ [][Next]_vars

\* one request at a time
SeqNext == Step(1)

SeqSpec == SeqInit /\ [][SeqNext]_vars

\* the schema engine called directly, one call at a time
ApiNext ==
    \/ \E r \in ApiRequests : callSchemaMigration(1, r)
    \/ fieldExistsStep(1)
    \/ alterTable(1)
    \/ logMigrationRead(1)
    \/ logMigrationWrite(1)
    \/ respond(1)

ApiSpec == SeqInit /\ [][ApiNext]_vars

\* the schema engine called directly by two callers at once: the calls
\* interleave at their awaits
ConcApiNext ==
    \E p \in Procs :
        \/ \E r \in ApiRequests : callSchemaMigration(p, r)
        \/ fieldExistsStep(p)
        \/ alterTable(p)
        \/ logMigrationRead(p)
        \/ logMigrationWrite(p)
        \/ respond(p)

ConcApiSpec == Init /\ [][ConcApiNext]_vars

\* the conversation: the detector decides what is processed; the manual
\* endpoint is called with actions that have no handler
ChatNext ==
    \/ \E m \in Messages : extractDataFromConversation(1, m)
    \/ \E r \in UnhandledRequests : processModification(1, r)
    \/ createBackup(1)
    \/ fieldExistsStep(1)
    \/ alterTable(1)
    \/ logMigrationRead(1)
    \/ logMigrationWrite(1)
    \/ generateComponent(1)
    \/ saveComponent(1)
    \/ registerRead(1)
    \/ registerWrite(1)
    \/ sendPushNotification(1)
    \/ listComponents(1)
    \/ unlinkComponent(1)
    \/ unregisterRead(1)
    \/ unregisterWrite(1)
    \/ undoListMigrations(1)
    \/ undoListComponents(1)
    \/ respond(1)

ChatSpec == ChatInit /\ [][ChatNext]_vars

\* the snapshots used directly: process 2 calls createBackup and
\* restoreBackup between the transactions of process 1, one call at a time
ManagerNext ==
    \/ tx[2].pc \in {"idle", "holding"} /\ Step(1)
    \/ /\ tx[1].pc = "idle"
       /\ \/ callCreateBackup(2)
          \/ createBackup(2)
          \/ restoreDb(2)
          \/ restoreComponents(2)
          \/ restoreActive(2)
          \/ respond(2)

ManagerSpec == SeqInit /\ [][ManagerNext]_vars

(***************************************************************************)
(* Properties.                                                             *)
(***************************************************************************)
MutatingActions == {"add_metric", "remove_metric", "add_chart"}

\* the live schema and registry are those the transaction's snapshot was
\* taken of
EqualsSnapshot(t) ==
    /\ columns = t.before.db
    /\ registry = t.before.active

hasAddRecord(field) ==
    \E i \in 1..Len(log) :
        /\ log[i].type = "add_field"
        /\ log[i].table = T_metrics
        /\ log[i].field = field

hasComponentFor(field) ==
    \E i \in 1..Len(registry) : registry[i].field = field

\* C1: when registerComponent returned false (name already present) in an
\* add transaction, the transaction ends with the schema and the registry
\* equal to its snapshot.  The code ignores the return value and goes on.
C1_RegisterFailureRestores ==
    \A p \in Procs :
        ( /\ tx[p].pc = "done"
          /\ tx[p].req.action \in {"add_metric", "add_chart"}
          /\ tx[p].registered = "false"
          /\ faults = 0 )
        => EqualsSnapshot(tx[p])

\* C2: a transaction that ends with an error raised after its snapshot was
\* taken ends with the schema and the registry equal to that snapshot.
C2_ErrorRestoresSnapshot ==
    \A p \in Procs :
        ( /\ tx[p].pc = "done"
          /\ tx[p].req.action \in MutatingActions
          /\ tx[p].result = "error"
          /\ tx[p].backupDir # NoRecord )
        => EqualsSnapshot(tx[p])

\* C3: when no transaction is in flight, every active field that was added
\* to the metrics table has a registered component, and every registered
\* metric component has an active field.
C3_SchemaRegistryConsistent ==
    (faults = 0 /\ \A p \in Procs : tx[p].pc = "idle")
    => /\ \A f \in getActiveFields(T_metrics) \ BaseColumns : hasComponentFor(f)
       /\ \A i \in 1..Len(registry) :
             registry[i].field # NoField
             => registry[i].field \in getActiveFields(T_metrics)

\* C4: a step of an add-metric, remove-metric or add-chart transaction that
\* changes the schema, the migration log, the artifact storage or the
\* registry is taken only after createBackup has written its snapshot.
C4_SnapshotPrecedesMutation ==
    [][ \A p \in Procs :
          ( /\ tx'[p] # tx[p]
            /\ tx[p].req.action \in MutatingActions
            /\ <<columns, log, registry, files>>'
                 # <<columns, log, registry, files>> )
          => tx[p].backupDir # NoRecord ]_vars

\* C4 witness: an add-metric transaction has added its column after its
\* snapshot was taken.
C4_Witness ==
    \E p \in Procs :
        /\ tx[p].req.action = "add_metric"
        /\ tx[p].pc = "log_read"
        /\ tx[p].backupDir # NoRecord
        /\ fieldNameOf(tx[p]) \in columns[T_metrics]
        /\ fieldNameOf(tx[p]) \notin tx[p].before.db[T_metrics]

\* C5: once an addField call is past its ALTER, the column has been added
\* by the call if and only if the log holds an add_field record for it.
C5_LogMatchesSchema ==
    \A p \in Procs :
        ( /\ tx[p].req.action = "add_metric"
          /\ tx[p].backupDir # NoRecord
          /\ tx[p].pc \in {"generate", "save", "register_read",
                           "register_write", "notify", "hung", "done"}
          /\ tx[p].result # "already_exists" )
        => LET field == fieldNameOf(tx[p])
               added == /\ field \in columns[T_metrics]
                        /\ field \notin tx[p].before.db[T_metrics]
           IN  added <=> hasAddRecord(field)

\* C6: at most one transaction is between its snapshot step (for undo: its
\* start) and its end.
InFlight(t) ==
    IF t.req.action = "undo" THEN t.pc \notin {"idle", "done"}
    ELSE t.pc \notin {"idle", "backup", "done"}

C6_MutualExclusion ==
    Cardinality({p \in Procs : InFlight(tx[p])}) <= 1

\* C7: while no I/O failure has occurred, every write of the registry
\* document by registerComponent (of a name no concurrent call has
\* registered) or unregisterComponent is the call's change applied to the
\* document as it is at the write: no other mutation is lost.
C7_RegistryWritesSerialized ==
    [][ \A p \in Procs :
          ( /\ faults' = 0
            /\ tx[p].pc \in {"register_write", "unregister_write"}
            /\ tx[p].pc = "register_write"
                 => ~isRegistered(registry, componentNameOf(tx[p]))
            /\ tx'[p] # tx[p] )
          => IF tx[p].pc = "register_write"
             THEN /\ Len(registry') = Len(registry) + 1
                  /\ SubSeq(registry', 1, Len(registry)) = registry
             ELSE registry' = spliceComponent(registry, tx[p].component) ]_vars

\* C8: when an undo is the second transaction of a run and the first one
\* added the metric "water", the undo ends with the field water soft-deleted
\* and the component Water unregistered.
C8_UndoReversesWholeAdd ==
    \A p \in Procs :
        ( /\ tx[p].req.action = "undo"
          /\ tx[p].pc = "done"
          /\ faults = 0
          /\ txLeft = MaxTxns - 2
          /\ tx[p].lastMigration # NoRecord
          /\ tx[p].lastMigration.type = "add_field"
          /\ tx[p].lastMigration.field = metricToFieldName(M_water) )
        => /\ metricToFieldName(M_water) \notin getActiveFields(T_metrics)
           /\ ~isRegistered(registry, metricToComponentName(M_water))

\* what an undo that ended has reversed
ReversedComponent(t) ==
    /\ componentTime(t.lastComponent) > migrationTime(t.lastMigration)
    /\ ~isRegistered(registry, t.lastComponent.name)
    /\ t.lastComponent.name \notin files

ReversedMigration(t) ==
    /\ componentTime(t.lastComponent) <= migrationTime(t.lastMigration)
    /\ t.lastMigration # NoRecord
    /\ log # <<>>
    /\ Last(log).type = "soft_delete_field"
    /\ Last(log).field = t.lastMigration.field
    /\ Last(log).executed_at > t.lastMigration.executed_at

UndoEnded(t) ==
    /\ t.req.action = "undo"
    /\ t.pc = "done"
    /\ t.result # "nothing_to_undo"

SecondAddEnded(t) ==
    /\ t.req.action = "add_metric"
    /\ t.pc = "done"
    /\ t.backupDir # NoRecord
    /\ fieldNameOf(t) \in t.before.db[T_metrics] \ BaseColumns
    /\ hasAddRecord(fieldNameOf(t))

addRecordsOf(field) ==
    { i \in 1..Len(log) : log[i].type = "add_field" /\ log[i].field = field }

hasSoftDelete(field) ==
    \E i \in 1..Len(log) :
        /\ log[i].type = "soft_delete_field"
        /\ log[i].table = T_metrics
        /\ log[i].field = field

\* an addField call with valid arguments has returned
AddFieldEnded(t) ==
    /\ t.pc = "done"
    /\ t.req.action = "addField"
    /\ validateFieldName(t.req.text)
    /\ validateDataType(t.req.dataType)

\* C11: without I/O failure, when an addField of a field returns after a
\* soft delete of that field succeeded, the field is listed among the active
\* fields of the table again.
C11_ReAddReappears ==
    \A p \in Procs :
        ( /\ AddFieldEnded(tx[p])
          /\ faults = 0
          /\ hasSoftDelete(tx[p].req.text) )
        => tx[p].req.text \in getActiveFields(T_metrics)

\* a soft removeField has returned success
SoftRemoveSucceeded(t) ==
    /\ t.pc = "done"
    /\ t.req.action = "removeField"
    /\ t.req.softDelete
    /\ t.result = "success"

AddActions == {"add_metric", "add_chart"}

\* the generated code calls eval or the Function constructor
ContainsDynamicEval(code) ==
    \/ Includes(code, <<"e","v","a","l","(">>)
    \/ Includes(code, <<"F","u","n","c","t","i","o","n","(">>)

BeginsWithExportShape(code) ==
    /\ Len(code) >= Len(ExportShape)
    /\ SubSeq(code, 1, Len(ExportShape)) = ExportShape

\* the transaction has passed generateComponent: it saves, registers,
\* notifies or has returned success
PastGeneration(t) ==
    /\ t.req.action \in AddActions
    /\ \/ t.pc \in {"save", "register_read", "register_write", "notify"}
       \/ t.pc = "done" /\ t.result = "success"

\* C13: no add_metric or add_chart transaction has saved, or goes on to
\* register, a component whose generated code contains a dynamic code
\* evaluation call.
C13_NoDynamicEvalAccepted ==
    \A p \in Procs :
        (PastGeneration(tx[p]) /\ tx[p].pc # "save")
        => ~ContainsDynamicEval(tx[p].generated)

\* C14: a transaction that saves, registers or returns success holds
\* generated code that begins with the export shape; and a generateComponent
\* whose cleaned text does not begin with it ends the transaction with an
\* error in the same step, the component files and the registry unchanged.
C14_ExportShapeGate ==
    /\ [](\A p \in Procs :
            PastGeneration(tx[p]) => BeginsWithExportShape(tx[p].generated))
    /\ [][ \A p \in Procs :
             ( /\ tx[p].pc = "generate"
               /\ tx'[p].generated # NoCode
               /\ ~BeginsWithExportShape(tx'[p].generated) )
             => /\ tx'[p].pc = "done"
                /\ tx'[p].result = "error"
                /\ files' = files
                /\ registry' = registry ]_vars

\* C14 witness: an add_metric ended with an error on generated text that
\* does not begin with the export shape, nothing saved and nothing registered.
C14_Witness ==
    \E p \in Procs :
        /\ tx[p].req.action = "add_metric"
        /\ tx[p].pc = "done"
        /\ tx[p].result = "error"
        /\ tx[p].generated # NoCode
        /\ ~BeginsWithExportShape(tx[p].generated)
        /\ files = {}
        /\ registry = <<>>

\* C15: no add_metric or add_chart transaction is left waiting for a
\* generator call that does not return: the wait for the oracle is bounded,
\* so the transaction goes on to its end.
C15_OracleWaitBounded ==
    \A p \in Procs :
        tx[p].req.action \in AddActions => tx[p].pc # "stalled"

(***************************************************************************)
(* Properties of validation, deletion and the reported outcomes.           *)
(***************************************************************************)
\* an addField call whose field name is a reserved word in some case or
\* does not match the identifier grammar, or whose data type is unsupported
BadAddField(r) ==
    /\ r.action = "addField"
    /\ \/ r.text \in {F_select, F_Select, F_5k}
       \/ r.dataType = "BLOB"

\* C16: an addField call with a reserved or malformed field name or an
\* unsupported data type ends with an error at the call, reaches neither
\* the existence query, the ALTER nor the log, and no step taken while it is
\* the current call changes the columns or the log.
C16_ValidationBeforeMutation ==
    /\ [](\A p \in Procs :
            BadAddField(tx[p].req)
            => tx[p].pc = "done" /\ tx[p].result = "error")
    /\ [][ \A p \in Procs :
             (BadAddField(tx[p].req) \/ BadAddField(tx'[p].req))
             => columns' = columns /\ log' = log ]_vars

\* C16 witness: addField with a reserved word in mixed case and a supported
\* type was rejected.
C16_Witness ==
    \E p \in Procs :
        /\ tx[p].req.action = "addField"
        /\ tx[p].req.text = F_Select
        /\ tx[p].req.dataType = "Text"
        /\ tx[p].pc = "done"
        /\ tx[p].result = "error"

\* a removeField(table, field, false) of a physical column has returned
HardRemoveEnded(t) ==
    /\ t.pc = "done"
    /\ t.req.action = "removeField"
    /\ ~t.req.softDelete
    /\ t.req.text \in columns[T_metrics]

C18_SoftDeleteOnlyAppends ==
    [][ \A p \in Procs :
          ( /\ tx[p].req.action = "removeField"
            /\ tx[p].pc = "log_write"
            /\ tx'[p].result = "success" )
          => /\ columns' = columns
             /\ Len(log') = Len(log) + 1
             /\ SubSeq(log', 1, Len(log)) = log
             /\ log'[Len(log')].type = "soft_delete_field"
             /\ log'[Len(log')].table = T_metrics
             /\ log'[Len(log')].field = tx[p].req.text ]_vars


\* the existence query of the addField of an add_metric transaction answers
\* that the column is there
AddFieldAnswersExists(p) ==
    /\ tx[p].req.action = "add_metric"
    /\ tx[p].pc = "exists"
    /\ fieldNameOf(tx[p]) \in columns[T_metrics]
    /\ faults' = faults
    /\ tx'[p] # tx[p]

\* C19: when addField answers already_exists inside an add_metric
\* transaction, the transaction ends in that step with the already_exists
\* outcome and not with an error, the step changes neither the columns, the
\* log, the component files nor the registry, and a transaction that ended
\* so has called neither the generator nor registerComponent and finds the
\* files and the registry as its snapshot recorded them.
C19_AlreadyExistsEndsTransaction ==
    /\ [](\A p \in Procs :
            ( /\ tx[p].req.action = "add_metric"
              /\ tx[p].result = "already_exists" )
            => /\ tx[p].pc = "done"
               /\ tx[p].generated = NoCode
               /\ tx[p].registered = None
               /\ files = tx[p].before.components
               /\ registry = tx[p].before.active)
    /\ [][ \A p \in Procs :
             AddFieldAnswersExists(p)
             => /\ tx'[p].pc = "done"
                /\ tx'[p].result = "already_exists"
                /\ UNCHANGED <<columns, log, registry, files>> ]_vars

\* C19 witness: an add_metric for a column of the base schema ended with
\* already_exists while a component is registered.
C19_Witness ==
    \E p \in Procs :
        /\ tx[p].req.action = "add_metric"
        /\ tx[p].pc = "done"
        /\ tx[p].result = "already_exists"
        /\ registry # <<>>

\* no component is registered for the field of the transaction's subject
NoComponentFor(t) ==
    \A i \in 1..Len(registry) :
        registry[i].field # metricToFieldName(t.req.text)

\* the snapshot of the transaction recorded no component for the field of
\* its subject
NoComponentAtStart(t) ==
    \A i \in 1..Len(t.before.active) :
        t.before.active[i].field # metricToFieldName(t.req.text)

\* C20: a remove_metric transaction whose subject has no registered
\* component changes neither the columns, the log, the registry nor the
\* component files in any of its steps, and the step that follows the
\* snapshot ends it with not_found.
C20_RemoveUnknownTracker ==
    /\ [](\A p \in Procs :
            ( /\ tx[p].req.action = "remove_metric"
              /\ tx[p].backupDir # NoRecord
              /\ NoComponentAtStart(tx[p]) )
            => /\ tx[p].pc \in {"list", "done"}
               /\ tx[p].pc = "done" => tx[p].result = "not_found"
               /\ columns = tx[p].before.db
               /\ files = tx[p].before.components
               /\ registry = tx[p].before.active)
    /\ [][ \A p \in Procs :
             ( /\ tx'[p].req.action = "remove_metric"
               /\ NoComponentFor(tx'[p]) )
             => UNCHANGED <<columns, log, registry, files>> ]_vars

\* C20 witness: a remove_metric of a subject without a component ended with
\* not_found after its snapshot, while other components are registered.
C20_Witness ==
    \E p \in Procs :
        /\ tx[p].req.action = "remove_metric"
        /\ tx[p].backupDir # NoRecord
        /\ NoComponentAtStart(tx[p])
        /\ tx[p].pc = "done"
        /\ tx[p].result = "not_found"
        /\ registry # <<>>


(***************************************************************************)
(* Properties of the intent detector and of the conversation.              *)
(***************************************************************************)
\* the triggers whose pattern matches the message
matchingRules(m) ==
    {k \in 1..Len(triggers) : match(m, triggers[k].pattern).matched}

\* for each message, the triggers that match it
rulesOf == [m \in Messages |-> matchingRules(m)]

\* the request of process p came from a message of the conversation
FromMessage(t) == t.pc # "idle" /\ "rawMessage" \in DOMAIN t.req

\* C21: a message that no trigger matches starts no transaction: the call
\* ends at once, no snapshot is made, and the step changes neither the
\* columns, the migration log, the component files nor the registry.
C21_NoMatchIsNoOp ==
    /\ [](\A p \in Procs :
            (FromMessage(tx[p]) /\ rulesOf[tx[p].req.rawMessage] = {})
            => /\ tx[p].pc = "done"
               /\ tx[p].result = "not_detected"
               /\ tx[p].backupDir = NoRecord)
    /\ [][ \A p \in Procs :
             (FromMessage(tx'[p]) /\ rulesOf[tx'[p].req.rawMessage] = {})
             => UNCHANGED <<columns, log, registry, files>> ]_vars

\* C21 witness: a message without a match was answered while a component is
\* registered.
C21_Witness ==
    \E p \in Procs :
        /\ FromMessage(tx[p])
        /\ tx[p].req.rawMessage = U_hello
        /\ tx[p].result = "not_detected"
        /\ registry # <<>>

\* generation succeeded for the transaction
GenerationSucceeded(t) == BeginsWithExportShape(t.generated)

\* the message add mood tracking has been processed without an I/O failure
\* on a state without a mood column, and the generator answered with a body
\* of the export shape
AddMoodProcessed(t) ==
    /\ FromMessage(t)
    /\ t.req.rawMessage = U_addMoodTracking
    /\ t.pc = "done"
    /\ faults = 0
    /\ t.before # NoRecord
    /\ D_mood \notin t.before.db[T_metrics]
    /\ GenerationSucceeded(t)

\* the column mood is in the metrics table and was logged as INTEGER
MoodFieldCreated ==
    /\ D_mood \in columns[T_metrics]
    /\ \E i \in 1..Len(log) :
          /\ log[i].type = "add_field"
          /\ log[i].table = T_metrics
          /\ log[i].field = D_mood
          /\ log[i].dataType = "INTEGER"

\* a component of that name is registered for the field mood on the dashboard
MoodComponentRegistered(name) ==
    \E i \in 1..Len(registry) :
        /\ registry[i].name = name
        /\ registry[i].field = D_mood
        /\ registry[i].location = "dashboard"

IsFieldId(f) ==
    /\ f # <<>>
    /\ f[1] = "_" \/ IsLower(f[1])
    /\ \A i \in 2..Len(f) : f[i] = "_" \/ IsAlnum(f[i])

\* C23: the field id derived from the subject of a detected add or remove
\* request matches the identifier grammar, has at most 50 characters and is
\* no reserved word.
C23_IdentifierSafety ==
    \A p \in Procs :
        ( /\ FromMessage(tx[p])
          /\ tx[p].req.action \in {"add_metric", "remove_metric"} )
        => LET f == metricToFieldName(tx[p].req.text)
           IN  /\ IsFieldId(f)
               /\ Len(f) <= 50
               /\ f \notin reserved

\* C24: the request made from a message carries the action and the
\* extraction of the first trigger, in the order of the table, whose pattern
\* matches the message, whatever later triggers match.
C24_FirstMatchWins ==
    \A p \in Procs :
        ( /\ FromMessage(tx[p])
          /\ rulesOf[tx[p].req.rawMessage] # {} )
        => LET m == tx[p].req.rawMessage
               first == triggers[MinOf(rulesOf[m])]
           IN  /\ tx[p].req.action = first.action
               /\ tx[p].req.text = extract(first, match(m, first.pattern))

\* C24 witness: a message that a remove trigger matches as well is in flight
\* with the action of the add trigger that comes first.
C24_Witness ==
    \E p \in Procs :
        /\ FromMessage(tx[p])
        /\ tx[p].req.rawMessage = U_dontTrackWater
        /\ \E k \in rulesOf[U_dontTrackWater] :
              triggers[k].action = "remove_metric"
        /\ tx[p].req.action = "add_metric"
        /\ tx[p].req.text = M_water

\* C25: a message that a remove trigger or an add-chart trigger matches is
\* not classified as add_metric.
C25_SpecificRuleFirst ==
    \A p \in Procs :
        ( /\ FromMessage(tx[p])
          /\ \E k \in rulesOf[tx[p].req.rawMessage] :
                triggers[k].action \in {"remove_metric", "add_chart"} )
        => tx[p].req.action # "add_metric"


(***************************************************************************)
(* Properties of the registry, the notification and the snapshots.         *)
(***************************************************************************)
NamePresent(name) == \E i \in 1..Len(registry) : registry[i].name = name

UniqueNames(components) ==
    \A i, j \in 1..Len(components) :
        components[i].name = components[j].name => i = j

\* process p gets the answer of getActiveComponents inside registerComponent
\* while the name it registers is in the registry
RegisterOfPresentName(p) ==
    /\ tx[p].pc = "register_read"
    /\ tx'[p] # tx[p]
    /\ NamePresent(componentNameOf(tx[p]))

C27_NotificationBestEffort ==
    /\ [](\A p \in Procs :
            tx[p].notification # None
            => /\ tx[p].req.action \in MutatingActions
               /\ tx[p].pc = "done"
               /\ tx[p].result = "success")
    /\ [][ \A p \in Procs :
             (tx[p].pc = "notify" /\ tx'[p] # tx[p])
             => /\ tx'[p].notification \in NotificationOutcomes
                /\ UNCHANGED <<columns, log, registry, files>> ]_vars

\* C27 witness: an add-metric transaction whose notification failed at a
\* send ended with success, its column and its component in place.
C27_Witness ==
    \E p \in Procs :
        /\ tx[p].req.action = "add_metric"
        /\ tx[p].notification = "send_error"
        /\ tx[p].result = "success"
        /\ fieldNameOf(tx[p]) \in columns[T_metrics] \ BaseColumns
        /\ NamePresent(componentNameOf(tx[p]))


\* C28: a snapshot that createBackup returned holds the database, the
\* component files and the registry document as they were at the call.
C28_SnapshotComplete ==
    \A p \in Procs :
        tx[p].backupDir # NoRecord
        => /\ tx[p].backupDir.has = {"db", "active"}
           /\ tx[p].backupDir.db = tx[p].before.db
           /\ tx[p].backupDir.components = tx[p].before.components
           /\ tx[p].backupDir.active = tx[p].before.active

\* restoreBackup returned true to process p
RestoreReturnedTrue(t) ==
    /\ t.req.action = "createBackup"
    /\ t.pc = "done"
    /\ t.result = "true"

\* C29: when restoreBackup returns true, the snapshot holds the database and
\* the registry document as they were when createBackup was called, and the
\* live database and the live registry are equal to them, whatever
\* transactions ran in between.
C29_RestoreRoundTrip ==
    \A p \in Procs :
        RestoreReturnedTrue(tx[p])
        => /\ columns = tx[p].backupDir.db
           /\ registry = tx[p].backupDir.active
           /\ tx[p].backupDir.db = tx[p].before.db
           /\ tx[p].backupDir.active = tx[p].before.active

\* C29 witness: restoreBackup returned true after an add-metric transaction
\* had added and logged a column, and removed a column and a component
\* that were added after the snapshot.
C29_Witness ==
    \E p \in Procs :
        /\ RestoreReturnedTrue(tx[p])
        /\ \E i \in 1..Len(log) :
              /\ log[i].type = "add_field"
              /\ log[i].field \notin columns[T_metrics]
        /\ files # {}
        /\ registry = <<>>

\* C30: an undo transaction changes the registry or the migration log only
\* after it has taken a snapshot.
C30_UndoSnapshotted ==
    [][ \A p \in Procs :
          ( /\ tx[p].req.action = "undo"
            /\ tx'[p] # tx[p]
            /\ <<registry, log>>' # <<registry, log>> )
          => tx[p].backupDir # NoRecord ]_vars


(***************************************************************************)
(* C31 .. C38                                                              *)
(***************************************************************************)
\* the outcomes addField and removeField have for a query that answered
DecidedOutcomes == {"already_exists", "not_found", "success"}

\* C31: the step in which the PRAGMA table_info query of an addField or
\* removeField call fails does not end the call with already_exists,
\* not_found or success, and a call it ends is ended with an error; the
\* step appends no record to the log.
C31_StoreErrorDistinguished ==
    [][ \A p \in Procs :
          ( /\ tx[p].req.action \in {"addField", "removeField"}
            /\ tx[p].pc = "exists"
            /\ faults' # faults )
          => /\ tx'[p].result \notin DecidedOutcomes
             /\ tx'[p].pc = "done" => tx'[p].result = "error"
             /\ log' = log ]_vars

\* the records of earlier are those of later at the same positions
IsPrefixOf(earlier, later) ==
    /\ Len(earlier) <= Len(later)
    /\ \A i \in 1..Len(earlier) : later[i] = earlier[i]

\* listMigrations answers the records oldest first
OldestFirst(migrations) ==
    \A i, j \in 1..Len(migrations) :
        i < j => migrations[i].executed_at <= migrations[j].executed_at

\* C32: every step of addField and removeField calls keeps the records of
\* the migration log unmodified at their positions and adds records only at
\* the end, and the log lists its records oldest first.
C32_LogAppendOnly ==
    /\ [][IsPrefixOf(log, log')]_vars
    /\ [] OldestFirst(log)

\* registerComponent has been called: its read or its write is awaited, or
\* it has returned
RegisterCalled(t) ==
    \/ t.pc \in {"register_read", "register_write"}
    \/ t.registered # None

\* the step is the one in which the transaction arrives at the await
Arrives(p, at) == tx'[p].pc = at /\ tx[p].pc # at

\* the step in which logMigration returned left an add_field record of the
\* field as the newest record of the log
AddFieldSucceeded(p) ==
    /\ tx[p].pc = "log_write"
    /\ fieldNameOf(tx[p]) \in columns'[T_metrics]
    /\ log' # <<>>
    /\ Last(log').type = "add_field"
    /\ Last(log').field = fieldNameOf(tx[p])

\* C33: registerComponent is called only in add_metric and add_chart
\* transactions, and only in the step in which saveComponent returned with
\* the body saved; saveComponent is called only in the step in which
\* generateComponent returned code of the accepted shape; generateComponent
\* is called, in an add_metric transaction, only in the step in which
\* addField returned success and, in an add_chart transaction, when
\* createBackup returned.
C33_RegistrationLast ==
    /\ [](\A p \in Procs :
            RegisterCalled(tx[p]) => tx[p].req.action \in AddActions)
    /\ [][ \A p \in Procs :
             /\ Arrives(p, "register_read")
                => /\ tx[p].pc = "save"
                   /\ componentNameOf(tx[p]) \in files'
                   /\ BeginsWithExportShape(tx[p].generated)
             /\ Arrives(p, "register_write") => tx[p].pc = "register_read"
             /\ Arrives(p, "save")
                => /\ tx[p].pc = "generate"
                   /\ BeginsWithExportShape(tx'[p].generated)
             /\ Arrives(p, "generate")
                => IF tx[p].req.action = "add_metric"
                   THEN AddFieldSucceeded(p)
                   ELSE tx[p].req.action = "add_chart" /\ tx[p].pc = "backup"
       ]_vars

\* C33 witness: the registry holds the component of an add_metric
\* transaction and that of an add_chart transaction, which has returned
\* success.
C33_Witness ==
    /\ \E i \in 1..Len(registry) : registry[i].field # NoField
    /\ \E i \in 1..Len(registry) : registry[i].field = NoField
    /\ \E p \in Procs :
          /\ tx[p].req.action = "add_chart"
          /\ tx[p].pc = "done"
          /\ tx[p].result = "success"
          /\ tx[p].registered = "true"

\* a remove_metric transaction has returned success
RemoveSucceeded(t) ==
    /\ t.req.action = "remove_metric"
    /\ t.pc = "done"
    /\ t.result = "success"

\* C34: when a remove_metric transaction has returned success, the field of
\* its metric is not among the active fields of the metrics table and its
\* component is not in the registry.
C34_RemoveSuccessFaithful ==
    \A p \in Procs :
        RemoveSucceeded(tx[p])
        => /\ fieldNameOf(tx[p]) \notin getActiveFields(T_metrics)
           /\ ~isRegistered(registry, tx[p].component)

\* the newest record of the migration log is a soft_delete_field record that
\* is not older than the newest registration
RemovalIsNewest ==
    /\ log # <<>>
    /\ Last(log).type = "soft_delete_field"
    /\ componentTime(Last(registry)) <= migrationTime(Last(log))

\* C35: while the newest migration record is a soft_delete_field record not
\* older than the newest registration, every step of an undo leaves the
\* schema, the migration log, the component files and the registry
\* unchanged, goes on to no removeField and no deleteComponent call, and the
\* undo returns undo_failed.
C35_UndoNeverReversesRemoval ==
    [][ \A p \in Procs :
          ( /\ tx[p].req.action = "undo"
            /\ tx[p].pc \in {"undo_migrations", "undo_components"}
            /\ tx'[p] # tx[p]
            /\ RemovalIsNewest )
          => /\ UNCHANGED <<columns, log, files, registry>>
             /\ tx'[p].pc \in {"undo_components", "done"}
             /\ tx'[p].pc = "done" => tx'[p].result = "undo_failed" ]_vars

\* restoreBackup has returned false
RestoreReturnedFalse(t) ==
    /\ t.atRestore # NoRecord
    /\ t.pc = "done"
    /\ t.result = "false"

\* C36: when restoreBackup has returned false, the live database, the
\* component files and the live registry are those of the moment it was
\* called.
C36_RestoreAllOrNothing ==
    \A p \in Procs :
        RestoreReturnedFalse(tx[p])
        => /\ columns = tx[p].atRestore.db
           /\ files = tx[p].atRestore.components
           /\ registry = tx[p].atRestore.active

\* the request's action is one processModification has no case for
Unhandled(t) ==
    /\ t.pc # "idle"
    /\ t.req.action \notin {"add_metric", "remove_metric", "add_chart", "undo"}
    /\ FromMessage(t) => rulesOf[t.req.rawMessage] # {}

\* C37: a request whose action processModification has no case for, detected
\* in a message (modify_layout) or sent to the manual endpoint, has ended
\* with an error and without a snapshot, and the step in which it arrived
\* changed neither the columns, the migration log, the component files nor
\* the registry.
C37_UnhandledChangesNothing ==
    /\ [](\A p \in Procs :
            Unhandled(tx[p])
            => /\ tx[p].pc = "done"
               /\ tx[p].result = "error"
               /\ tx[p].backupDir = NoRecord)
    /\ [][ \A p \in Procs :
             Unhandled(tx'[p])
             => UNCHANGED <<columns, log, files, registry>> ]_vars

\* C37 witness: the message "move the chart to the top", detected as
\* modify_layout, has been answered with an error while a component is
\* registered.
C37_Witness ==
    \E p \in Procs :
        /\ Unhandled(tx[p])
        /\ FromMessage(tx[p])
        /\ tx[p].req.action = "modify_layout"
        /\ tx[p].result = "error"
        /\ registry # <<>>

\* the manual endpoint has answered an unknown action
C37_WitnessManual ==
    \E p \in Procs :
        /\ Unhandled(tx[p])
        /\ ~FromMessage(tx[p])
        /\ tx[p].req.action = "rename_metric"
        /\ tx[p].result = "error"
        /\ log # <<>>

\* an addField call has returned success
AddFieldReturnedSuccess(t) ==
    /\ t.req.action = "addField"
    /\ t.pc = "done"
    /\ t.result = "success"

\* C38: when two addField calls on distinct fields of the metrics table that
\* ran at the same time have both returned success, and no I/O failure has
\* occurred, the migration log holds an add_field record of each of the two
\* fields.
C38_ConcurrentAddsLogged ==
    \A p, q \in Procs :
        ( /\ p # q
          /\ faults = 0
          /\ AddFieldReturnedSuccess(tx[p])
          /\ AddFieldReturnedSuccess(tx[q])
          /\ tx[p].req.text # tx[q].req.text )
        => hasAddRecord(tx[p].req.text) /\ hasAddRecord(tx[q].req.text)

=============================================================================
